---------------------------- MODULE Spec2Model ----------------------------
(***************************************************************************)
(* Grid-based recursive Bayes filter of nav.py (class Nav).                *)
(*                                                                         *)
(* The pose grid [height, width, orientation] is kept at a reduced size.   *)
(* Real-valued grids are exact rationals: a grid is a record               *)
(*   [n |-> numerators per cell, d |-> common denominator]                 *)
(* in lowest terms.  d = 0 stands for the grid every cell of which is NaN  *)
(* (the result of 0.0/0.0 in every cell).                                  *)
(* Lengths are in millimetres, angles in milliradians.                     *)
(***************************************************************************)
EXTENDS Integers, Sequences, FiniteSets, TLC

\* ------------------------------------------------------------------ bounds
\* number of odometry messages delivered in one run
MaxPoseEvents == 3
\* number of detection messages delivered in one run
MaxDetectionEvents == 2

\* --------------------------------------------------------- grid constants
\* self.num_grid_cells (101 in the source; reduced grid)
num_grid_cells == 3
\* self.num_orientation_cells (128 in the source; reduced to quarter turns)
num_orientation_cells == 4
\* self.world_cell_size in mm (3.0 m / 101 in the source, about 29.7 mm)
world_cell_size == 30
\* self.position_kernel is 11 x 11 with the unit mass at [5, 5]
kernel_centre == 5
\* thresholds of the moving test: .001 m and .001 rad
moving_threshold == 1
\* the literal 3.141 of the yaw shift, in milliradians
pi_literal == 3141

NumCells == num_grid_cells * num_grid_cells * num_orientation_cells

Cells == (0 .. num_grid_cells - 1) \X (0 .. num_grid_cells - 1) \X (0 .. num_orientation_cells - 1)

\* cells in the order of a flattened [height, width, orientation] tensor
CellSeq == [i \in 1 .. NumCells |->
              << (i - 1) \div (num_grid_cells * num_orientation_cells),
                 ((i - 1) \div num_orientation_cells) % num_grid_cells,
                 (i - 1) % num_orientation_cells >>]

\* ------------------------------------------------------ exact arithmetic
Abs(a) == IF a < 0 THEN 0 - a ELSE a

Max2(a, b) == IF a >= b THEN a ELSE b

RECURSIVE GCD(_, _)
GCD(a, b) == IF b = 0 THEN Abs(a) ELSE GCD(b, a % Abs(b))

\* TLC re-evaluates an operator's argument at each use and a function
\* constructor at each application.  Tabulated computes every entry of a
\* table once; With1 and With2 evaluate their operands once and apply Op to
\* the values.
Tabulated(f) == CHOOSE g \in {f} : g = g

With1(Op(_), a) == CHOOSE r \in {Op(x) : x \in {a}} : TRUE

With2(Op(_, _), a, b) == CHOOSE r \in {Op(x, y) : x \in {a}, y \in {b}} : TRUE

RECURSIVE SumBetween(_, _, _)
\* the sum of f over the cells lo .. hi of CellSeq, by halving
SumBetween(f, lo, hi) ==
    IF lo = hi THEN f[CellSeq[lo]]
    ELSE SumBetween(f, lo, (lo + hi) \div 2) + SumBetween(f, (lo + hi) \div 2 + 1, hi)

\* torch.sum over all cells, of the numerators
GridSum(f) == SumBetween(f, 1, NumCells)

RECURSIVE GcdBetween(_, _, _)
GcdBetween(f, lo, hi) ==
    IF lo = hi THEN Abs(f[CellSeq[lo]])
    ELSE GCD(GcdBetween(f, lo, (lo + hi) \div 2), GcdBetween(f, (lo + hi) \div 2 + 1, hi))

ReduceBy(g, q) ==
    IF q = 0 THEN g
    ELSE [n |-> Tabulated([c \in Cells |-> g.n[c] \div q]), d |-> g.d \div q]

ReduceValue(g) == With2(ReduceBy, g, GCD(g.d, GcdBetween(g.n, 1, NumCells)))

\* a grid in lowest terms: numerators and denominator divided by their
\* greatest common divisor
Reduce(g) == With1(ReduceValue, [n |-> Tabulated(g.n), d |-> g.d])

\* the grid holding the same number num/den in every cell
Const(num, den) == Reduce([n |-> [c \in Cells |-> num], d |-> den])

NaNGrid == [n |-> [c \in Cells |-> 0], d |-> 0]

IsNaN(g) == g.d = 0

MulValues(a, b) == Reduce([n |-> [c \in Cells |-> a.n[c] * b.n[c]], d |-> a.d * b.d])

\* pointwise a * b
Mul(a, b) == With2(MulValues, a, b)

AddValues(a, b) ==
    Reduce([n |-> [c \in Cells |-> a.n[c] * b.d + b.n[c] * a.d], d |-> a.d * b.d])

\* pointwise a + b
Add(a, b) == With2(AddValues, a, b)

DivIntValues(a, k) == Reduce([n |-> a.n, d |-> a.d * k])

\* a / k for a positive integer k
DivInt(a, k) == With2(DivIntValues, a, k)

OneMinusValue(a) == Reduce([n |-> [c \in Cells |-> a.d - a.n[c]], d |-> a.d])

\* 1.0 - a
OneMinus(a) == With1(OneMinusValue, a)

RECURSIVE Power(_, _)
Power(a, k) == IF k = 0 THEN Const(1, 1) ELSE Mul(a, Power(a, k - 1))

\* ------------------------------------------------------- landmark model
\* self.object_list: the keys of object_dictionary in insertion order
object_list == << "dog", "cat" >>

\* self.object_list[idx] with the 0-based index of the source
ObjectName(idx) == object_list[idx + 1]

mid_cell == (num_grid_cells - 1) \div 2

\* the yaw slice looking straight at the landmark: the dog stands beyond the
\* +x edge of the grid (yaw 0), the cat beyond the -y edge (yaw -90 degrees)
FacingSlice(name) == IF name = "dog" THEN 0 ELSE num_orientation_cells - 1

\* forward distance, in cells, from cell c to the landmark's wall
ForwardCells(name, c) ==
    IF name = "dog" THEN num_grid_cells - c[2] ELSE num_grid_cells - c[1]

\* sideways offset, in cells, of the landmark seen from cell c
LateralCells(name, c) == IF name = "dog" THEN c[1] - mid_cell ELSE c[2] - mid_cell

\* a box centre far outside the image, as predicted for cells looking away
far_outside == 10

\* world_to_bbox, tabulated on the reduced grid in units of the likelihood's
\* standard deviation (scale = 25 pixels), relative to the principal point:
\* the predicted box moves sideways with the lateral offset and grows as the
\* robot gets closer; cells looking away predict an empty far-away box
world_to_bbox(name) ==
    [c \in Cells |->
        IF c[3] = FacingSlice(name)
        THEN [x |-> 0 - LateralCells(name, c), y |-> 0,
              width |-> num_grid_cells + 1 - ForwardCells(name, c),
              height |-> num_grid_cells + 1 - ForwardCells(name, c)]
        ELSE [x |-> far_outside, y |-> 0, width |-> 0, height |-> 0]]

\* denominator of the tabulated detection probabilities
detection_probability_den == 4

\* box_probability, tabulated on the reduced grid: the share of the predicted
\* box inside the image is high looking straight at the landmark, lower from
\* the side and lowest looking away; always strictly between 0 and 1
box_probability(name) ==
    Reduce([n |-> [c \in Cells |->
                      IF c[3] # FacingSlice(name) THEN 1
                      ELSE IF LateralCells(name, c) = 0 THEN 3 ELSE 2],
            d |-> detection_probability_den])

\* self.object_dictionary, computed once in __init__
object_dictionary ==
    [name \in {"dog", "cat"} |->
        [bounding_boxes |-> world_to_bbox(name),
         detection_probabilities |-> box_probability(name)]]

\* ------------------------------------------------ observation likelihood
\* exp(res - logsumexp(res)) up to the common factor: 2 at the best cell,
\* 1 within two units of squared distance of it, 0 (underflow) further away
ExpNeg(e) == IF e = 0 THEN 2 ELSE IF e <= 2 THEN 1 ELSE 0

Sq(a) == a * a

\* -2 * (res1 + res2 + res3 + res4) up to a constant, per cell
SquaredDistance(bbox, boxes) ==
    Tabulated([c \in Cells |->
        Sq(bbox.x - boxes[c].x) + Sq(bbox.size_x - boxes[c].width)
        + Sq(bbox.size_y - boxes[c].height) + Sq(bbox.y - boxes[c].y)])

\* the smallest value of a per-cell table
GridMin(f) == CHOOSE m \in {f[c] : c \in Cells} : \A c \in Cells : m <= f[c]

\* exp(res - logsumexp(res)) per cell, up to the common factor
RelativeLikelihood(res) ==
    LET best == GridMin(res) IN Tabulated([c \in Cells |-> ExpNeg(res[c] - best)])

\* a grid of non-negative weights divided by its sum
Normalized(w) == Reduce([n |-> w, d |-> GridSum(w)])

\* prob_map: the box likelihood normalised to sum to 1 over the grid
prob_map(bbox, boxes) == Normalized(RelativeLikelihood(SquaredDistance(bbox, boxes)))

\* prob_dist_random = 1 / prob_dist_random_inv (0.05 * 0.01^4 in the
\* source; a larger value here keeps the exact arithmetic small)
prob_dist_random_inv == 2

\* detections_msg[:i-1] + detections_msg[i:] for the 1-based index i
RemoveAt(s, i) == SubSeq(s, 1, i - 1) \o SubSeq(s, i + 1, Len(s))

RECURSIVE probmessage_cond_a(_, _)
RECURSIVE CumProb(_, _, _)

\* the loop of probmessage_cond_a over assign_idx = 0 .. k-1
CumProb(detections_msg, proposals, k) ==
    IF k = 0 THEN Const(0, 1)
    ELSE
        LET proposal_name == ObjectName(Head(proposals))
            det == detections_msg[k]
            pm == prob_map(det.bbox, object_dictionary[proposal_name].bounding_boxes)
            prob_assignment == IF proposal_name # det.class_id THEN Mul(pm, Const(0, 1)) ELSE pm
            rem_prob == probmessage_cond_a(RemoveAt(detections_msg, k), Tail(proposals))
            total_prob == Mul(prob_assignment, rem_prob)
        IN  Add(CumProb(detections_msg, proposals, k - 1),
                DivInt(total_prob, Len(detections_msg)))

probmessage_cond_a(detections_msg, proposals) ==
    IF proposals = << >>
    THEN Power(Const(1, prob_dist_random_inv), Len(detections_msg))
    ELSE CumProb(detections_msg, proposals, Len(detections_msg))

\* itertools.product([False, True], repeat=2)
comb == << <<FALSE, FALSE>>, <<FALSE, TRUE>>, <<TRUE, FALSE>>, <<TRUE, TRUE>> >>

\* the test of line 197: idx == False holds for idx = 0 only
IdxIsFalse(idx, assignment) == idx = 0

RECURSIVE ProbsUpTo(_, _)
\* the inner loop of probmessage over idx = 0 .. k-1
ProbsUpTo(assignment, k) ==
    IF k = 0 THEN Const(1, 1)
    ELSE LET idx == k - 1
             p == object_dictionary[ObjectName(idx)].detection_probabilities
         IN  IF IdxIsFalse(idx, assignment)
             THEN Mul(ProbsUpTo(assignment, k - 1), OneMinus(p))
             ELSE Mul(ProbsUpTo(assignment, k - 1), p)

\* probs, as multiplied onto probmessage_cond_a for one assignment
Probs(assignment) == ProbsUpTo(assignment, Len(assignment))

\* [i for i, x in enumerate(assignment) if x]
Assignments(assignment) ==
    (IF assignment[1] THEN << 0 >> ELSE << >>) \o (IF assignment[2] THEN << 1 >> ELSE << >>)

RECURSIVE ProbmessageUpTo(_, _)
ProbmessageUpTo(detections_msg, k) ==
    IF k = 0 THEN Const(0, 1)
    ELSE Add(ProbmessageUpTo(detections_msg, k - 1),
             Mul(probmessage_cond_a(detections_msg, Assignments(comb[k])), Probs(comb[k])))

probmessage(detections_msg) == ProbmessageUpTo(detections_msg, Len(comb))

\* ----------------------------------------------------------- motion model
\* a / b rounded to the nearest integer, for b > 0
RoundDiv(a, b) == (2 * a + b) \div (2 * b)

\* (cos, sin) of a yaw in milliradians, to the nearest axis direction
Heading(yaw) ==
    IF yaw >= -785 /\ yaw <= 785 THEN << 1, 0 >>
    ELSE IF yaw > 785 /\ yaw <= 2356 THEN << 0, 1 >>
    ELSE IF yaw < -785 /\ yaw >= -2356 THEN << 0, -1 >>
    ELSE << -1, 0 >>

\* torch.inner of (cos, sin) of the current yaw with the position difference
InertialForward(last_inertial_position, current_inertial_position, current_inertial_orientation) ==
    Heading(current_inertial_orientation)[1] * (current_inertial_position[1] - last_inertial_position[1])
    + Heading(current_inertial_orientation)[2] * (current_inertial_position[2] - last_inertial_position[2])

\* scipy.ndimage.shift of position_kernel by (0, -inertial_forward / cell):
\* the offset << row, column >> of the unit mass from the kernel's centre,
\* to the nearest cell; << >> once it has left the 11 x 11 window (all zeros)
ShiftedKernel(inertial_forward) ==
    LET columns == RoundDiv(0 - inertial_forward, world_cell_size)
    IN  IF Abs(columns) > kernel_centre THEN << >> ELSE << 0, columns >>

RECURSIVE RotatedKernel(_, _)
\* scipy.ndimage.rotate by 360 * r / num_orientation_cells degrees, a quarter
\* turn counterclockwise per slice
RotatedKernel(shifted, r) ==
    IF shifted = << >> \/ r = 0 THEN shifted
    ELSE LET q == RotatedKernel(shifted, r - 1) IN << 0 - q[2], q[1] >>

InGrid(y, x) == y >= 0 /\ y < num_grid_cells /\ x >= 0 /\ x < num_grid_cells

\* conv2d (a cross-correlation, zero padded, same size) of every yaw slice
\* of the map with that slice's rotated kernel: numerators only
ConvolvedSlices(n, shifted) ==
    Tabulated([c \in Cells |->
        LET k == RotatedKernel(shifted, c[3])
        IN  IF k = << >> THEN 0
            ELSE IF InGrid(c[1] + k[1], c[2] + k[2]) THEN n[<< c[1] + k[1], c[2] + k[2], c[3] >>]
            ELSE 0])

\* scipy.ndimage.shift along the yaw axis with mode='wrap', to the nearest cell
YawShifted(n, inertial_orientation_difference) ==
    LET k == RoundDiv(inertial_orientation_difference * num_orientation_cells, 2 * pi_literal)
    IN  [c \in Cells |-> n[<< c[1], c[2], (c[3] - k) % num_orientation_cells >>]]

\* the moving test of inertial_update
IsMoving(last_inertial_position, current_inertial_position, last_inertial_orientation, current_inertial_orientation) ==
    \/ Sq(current_inertial_position[1] - last_inertial_position[1])
       + Sq(current_inertial_position[2] - last_inertial_position[2]) > Sq(moving_threshold)
    \/ Abs(current_inertial_orientation - last_inertial_orientation) > moving_threshold

\* inertial_update: << moving, s >>
inertial_update(map, last_inertial_position, current_inertial_position, last_inertial_orientation, current_inertial_orientation) ==
    LET inertial_forward == InertialForward(last_inertial_position, current_inertial_position, current_inertial_orientation)
        conv == ConvolvedSlices(map.n, ShiftedKernel(inertial_forward))
        s == Reduce([n |-> YawShifted(conv, current_inertial_orientation - last_inertial_orientation),
                     d |-> map.d])
    IN  << IsMoving(last_inertial_position, current_inertial_position, last_inertial_orientation, current_inertial_orientation), s >>

\* ------------------------------------------------------------ filter loop
\* torch.clip(map, min=0.0)
Clip(map) == [n |-> [c \in Cells |-> Max2(map.n[c], 0)], d |-> map.d]

\* map / map.sum(): 0.0 / 0.0 is NaN in every cell when the sum is zero
DivideBySum(map) ==
    LET total == GridSum(map.n)
    IN  IF total = 0 THEN NaNGrid ELSE Reduce([n |-> map.n, d |-> total])

\* lines 318-319
ClipNormalize(map) == DivideBySum(Clip(map))

\* set_uniform_pose_map
UniformPoseMap == Const(1, NumCells)

\* ------------------------------------------------------ output projection
\* torch.max over all cells, of the numerators
GridMax(f) == CHOOSE m \in {f[c] : c \in Cells} : \A c \in Cells : f[c] <= m

\* the last cell, in flattened order, holding the largest value of the map
LastMaxCell(map) ==
    LET m == GridMax(map.n)
        i == CHOOSE i \in 1 .. NumCells :
                /\ map.n[CellSeq[i]] = m
                /\ \A j \in (i + 1) .. NumCells : map.n[CellSeq[j]] # m
    IN  CellSeq[i]

\* (map == torch.max(map)).nonzero()[0]: the first cell, in flattened order,
\* holding the largest value of the whole map
FirstMaxCell(map) ==
    LET m == GridMax(map.n)
        i == CHOOSE i \in 1 .. NumCells :
                /\ map.n[CellSeq[i]] = m
                /\ \A j \in 1 .. (i - 1) : map.n[CellSeq[j]] # m
    IN  CellSeq[i]

\* map[loc[0], loc[1]].argmax(): the first yaw index holding the row's maximum
ArgmaxYaw(map, loc) ==
    CHOOSE t \in 0 .. num_orientation_cells - 1 :
        /\ \A u \in 0 .. num_orientation_cells - 1 :
              map.n[<< loc[1], loc[2], u >>] <= map.n[<< loc[1], loc[2], t >>]
        /\ \A u \in 0 .. (t - 1) :
              map.n[<< loc[1], loc[2], u >>] < map.n[<< loc[1], loc[2], t >>]

\* get_location_MLE: << loc, orientation >>
get_location_MLE(map) ==
    LET loc == FirstMaxCell(map) IN << loc, ArgmaxYaw(map, loc) >>

world_grid_length == num_grid_cells * world_cell_size

grid_cells_origin == 0 - (world_grid_length \div 2)

\* the pose published by publish_pose_msg, in mm and milliradians
PoseMsg(map) ==
    LET mle == get_location_MLE(map)
    IN  [x |-> grid_cells_origin + mle[1][2] * world_cell_size,
         y |-> grid_cells_origin + world_grid_length - mle[1][1] * world_cell_size,
         yaw |-> (mle[2] * 2 * pi_literal) \div num_orientation_cells]

\* torch.sum(map, axis=2) at one (row, column)
YawSum(n, y, x) ==
    LET RECURSIVE Upto(_)
        Upto(t) == IF t < 0 THEN 0 ELSE n[<< y, x, t >>] + Upto(t - 1)
    IN  Upto(num_orientation_cells - 1)

\* conv2d of the yaw marginal with a 3 x 3 kernel of ones, padding 1
Smoothed(n, y, x) ==
    LET at(i, j) == IF InGrid(i, j) THEN YawSum(n, i, j) ELSE 0
    IN  at(y - 1, x - 1) + at(y - 1, x) + at(y - 1, x + 1)
        + at(y, x - 1) + at(y, x) + at(y, x + 1)
        + at(y + 1, x - 1) + at(y + 1, x) + at(y + 1, x + 1)

\* prob_map_msg.data of publish_occupancy_grid_msg: 100 * conv / conv.max(),
\* flipped along the rows, truncated to integers and flattened
OccupancyData(map) ==
    LET conv == [y \in 0 .. num_grid_cells - 1 |-> [x \in 0 .. num_grid_cells - 1 |-> Smoothed(map.n, y, x)]]
        top == CHOOSE m \in {conv[y][x] : y \in 0 .. num_grid_cells - 1, x \in 0 .. num_grid_cells - 1} :
                  \A y \in 0 .. num_grid_cells - 1 : \A x \in 0 .. num_grid_cells - 1 : conv[y][x] <= m
    IN  [i \in 1 .. num_grid_cells * num_grid_cells |->
            (100 * conv[num_grid_cells - 1 - ((i - 1) \div num_grid_cells)][(i - 1) % num_grid_cells]) \div top]

\* ------------------------------------------------------------------ inputs
\* detections as delivered on /detected_objects: class_id and bounding box
DogDetection == [class_id |-> "dog", bbox |-> [x |-> 0, y |-> 0, size_x |-> 2, size_y |-> 2]]

CatDetection == [class_id |-> "cat", bbox |-> [x |-> 1, y |-> 0, size_x |-> 3, size_y |-> 3]]

PersonDetection == [class_id |-> "person", bbox |-> [x |-> 0, y |-> 0, size_x |-> 1, size_y |-> 1]]

\* a frame without detections, one dog, a dog and a cat, an unknown class
DetectionLists ==
    { << >>, << DogDetection >>, << DogDetection, CatDetection >>, << PersonDetection >> }

\* odometry as delivered on /differential_drive_controller/odom: position in
\* mm (at rest, within the moving threshold, one cell on, ten cells on) and
\* yaw in milliradians (0 and a quarter turn)
PoseMessages ==
    [position : { << 0, 0 >>, << 1, 0 >>, << 30, 0 >>, << 300, 0 >> }, orientation : { 0, 1571 }]

\* probmessage on each list that can be delivered, computed once
probmessage_of == [detections_msg \in DetectionLists |-> probmessage(detections_msg)]

\* Python's None for the attributes holding tuples and tensors
None == << >>

\* -------------------------------------------------------------------- state
VARIABLES
    detections,                  \* self.detections: [is_none, list]
    current_probability_map,     \* self.current_probability_map
    last_inertial_position,      \* self.last_inertial_position, None or << x, y >>
    last_inertial_orientation,   \* self.last_inertial_orientation, None (not yet set) or << yaw >>
    state,                       \* self.state: 0 or 1
    probmap_publisher,           \* messages published on probmap
    pose_publisher,              \* messages published on nav_pose
    running,                     \* FALSE once a callback has raised out of rclpy.spin
    pose_events,                 \* odometry messages delivered so far
    received,                    \* history: every detections list delivered so far
    last_odometry,               \* history: the last odometry message and how pose_callback
                                 \* handled it
    episode_fusions              \* history: times the observation likelihood entered the
                                 \* map since the last odometry event classified as moving

vars == << detections, current_probability_map, last_inertial_position, last_inertial_orientation,
           state, probmap_publisher, pose_publisher, running, pose_events, received,
           last_odometry, episode_fusions >>

Event(kind, moving, msg) == [kind |-> kind, moving |-> moving, msg |-> msg]

\* __init__, lines 93-100
Init ==
    /\ detections = [is_none |-> TRUE, list |-> << >>]
    /\ current_probability_map = UniformPoseMap
    /\ last_inertial_position = None
    /\ last_inertial_orientation = None
    /\ state = 0
    /\ probmap_publisher = << >>
    /\ pose_publisher = << >>
    /\ running = TRUE
    /\ pose_events = 0
    /\ received = << >>
    /\ last_odometry = Event("none", FALSE, << >>)
    /\ episode_fusions = 0

\* a callback that stores only the first list it receives
StoredDetectionsKeepFirst(old, msg) == IF old.is_none THEN [is_none |-> FALSE, list |-> msg] ELSE old

\* self.detections = msg.detections
StoredDetections(old, msg) == [is_none |-> FALSE, list |-> msg]

detections_callback(msg) ==
    /\ running
    /\ Len(received) < MaxDetectionEvents
    /\ detections' = StoredDetections(detections, msg)
    /\ received' = Append(received, msg)
    /\ UNCHANGED << current_probability_map, last_inertial_position, last_inertial_orientation,
                    state, probmap_publisher, pose_publisher, running, pose_events,
                    last_odometry, episode_fusions >>

\* a callback without the early return
DetectionsMissingNever(d) == FALSE

\* lines 291-292: the early return while self.detections is None
DetectionsMissing(d) == d.is_none

PoseSkipped(msg) ==
    /\ DetectionsMissing(detections)
    /\ last_odometry' = Event("skipped", FALSE, msg)
    /\ UNCHANGED << detections, current_probability_map, last_inertial_position,
                    last_inertial_orientation, state, probmap_publisher, pose_publisher,
                    running, received, episode_fusions >>

\* lines 298-303: the first odometry message handled with detections present
PoseFirst(msg) ==
    /\ ~DetectionsMissing(detections)
    /\ last_inertial_position = None
    /\ last_inertial_position' = msg.position
    /\ last_inertial_orientation' = << msg.orientation >>
    /\ current_probability_map' = probmessage_of[detections.list]
    /\ episode_fusions' = episode_fusions + 1
    /\ last_odometry' = Event("first", FALSE, msg)
    /\ UNCHANGED << detections, state, probmap_publisher, pose_publisher, running, received >>

\* the map assigned in lines 307-317, before clipping and normalising
Candidate(map, st, moving, inertial_update_probability_map, pose_from_detections_probability_map) ==
    IF moving THEN inertial_update_probability_map
    ELSE IF st = 0 THEN Mul(inertial_update_probability_map, pose_from_detections_probability_map)
    ELSE map

\* last_inertial_* advanced only by messages classified as moving
NextInertialOdometryWhenMoving(last, current, moving) == IF moving THEN current ELSE last

\* lines 305-306: last_inertial_position and last_inertial_orientation take
\* the current message's values whatever the outcome of the moving test
NextInertialOdometry(last, current, moving) == current

\* a mode that a moving message does not reset
NextStateSticky(st, moving) == IF moving THEN st ELSE 1

\* self.state after lines 307-317
NextState(st, moving) == IF moving THEN 0 ELSE 1

\* lines 320-322 on a map without NaN: both messages are published
PublishBoth(map) ==
    /\ probmap_publisher' = Append(probmap_publisher, [defined |-> TRUE, data |-> OccupancyData(map)])
    /\ pose_publisher' = Append(pose_publisher, PoseMsg(map))
    /\ running' = running

\* lines 320-322 on a map of NaN: the cast of NaN to int is undefined, so
\* setting prob_map_msg.data either raises (nothing is published) or probmap
\* carries undefined cells; then nonzero()[0] of get_location_MLE raises on
\* the empty index tensor and the exception ends rclpy.spin
PublishNaN ==
    /\ \/ probmap_publisher' = probmap_publisher
       \/ probmap_publisher' = Append(probmap_publisher, [defined |-> FALSE, data |-> << >>])
    /\ pose_publisher' = pose_publisher
    /\ running' = FALSE

\* lines 304-322
PoseUpdate(msg) ==
    /\ ~DetectionsMissing(detections)
    /\ last_inertial_position # None
    /\ \E pose_from_detections_probability_map \in {probmessage_of[detections.list]} :
       \E update \in {inertial_update(current_probability_map, last_inertial_position, msg.position,
                                      last_inertial_orientation[1], msg.orientation)} :
       \E new_map \in {ClipNormalize(Candidate(current_probability_map, state, update[1], update[2],
                                               pose_from_detections_probability_map))} :
           /\ last_inertial_position' =
                  NextInertialOdometry(last_inertial_position, msg.position, update[1])
           /\ last_inertial_orientation' =
                  NextInertialOdometry(last_inertial_orientation, << msg.orientation >>, update[1])
           /\ state' = NextState(state, update[1])
           /\ current_probability_map' = new_map
           /\ episode_fusions' = IF update[1] THEN 0
                                 ELSE IF state = 0 THEN episode_fusions + 1
                                 ELSE episode_fusions
           /\ last_odometry' = Event("update", update[1], msg)
           /\ IF IsNaN(new_map) THEN PublishNaN ELSE PublishBoth(new_map)
    /\ UNCHANGED << detections, received >>

pose_callback(msg) ==
    /\ running
    /\ pose_events < MaxPoseEvents
    /\ pose_events' = pose_events + 1
    /\ \/ PoseSkipped(msg)
       \/ PoseFirst(msg)
       \/ PoseUpdate(msg)

Next ==
    \/ \E msg \in DetectionLists : detections_callback(msg)
    \/ \E msg \in PoseMessages : pose_callback(msg)

Spec == Init /\ [][Next]_vars
\* ================================================================ properties
\* the last odometry message was handled with detections present
Handled == last_odometry.kind \in {"first", "update"}

\* a step of pose_callback that handled its message with detections present
HandledStep == pose_events' # pose_events /\ last_odometry'.kind \in {"first", "update"}

\* a step of pose_callback past the first handled message (lines 304-322)
UpdateStep == pose_events' # pose_events /\ last_odometry'.kind = "update"

\* non-negative in every cell and summing to 1 over all cells
IsDistribution(map) ==
    /\ map.d > 0
    /\ \A c \in Cells : map.n[c] >= 0
    /\ GridSum(map.n) = map.d

\* C1: after every odometry event handled with detections present, the first
\* one included, the stored belief is non-negative in every cell and sums to
\* 1 over all cells.
C1_BeliefIsDistribution == Handled => IsDistribution(current_probability_map)

\* C2: an odometry event arriving while no detections message has ever been
\* received is skipped: nothing is published, the belief is still the initial
\* uniform grid, last_odom is still unset and the mode is still fresh.
C2_SkippedWithoutDetections ==
    received = << >> =>
        /\ current_probability_map = UniformPoseMap
        /\ last_inertial_position = None
        /\ last_inertial_orientation = None
        /\ state = 0
        /\ probmap_publisher = << >>
        /\ pose_publisher = << >>

\* C2 witness: an odometry message has been delivered and skipped, and still
\* no detections message has been received
C2_Witness == received = << >> /\ last_odometry.kind = "skipped" /\ pose_events = 2

\* C3: when the clipped candidate belief of an odometry update sums to zero,
\* the update is skipped and the previous belief is kept; the belief never
\* becomes a grid of NaN.
C3_ZeroSumUpdateSkipped == ~IsNaN(current_probability_map)

\* C4: every odometry event handled with detections present, the first one
\* included, publishes an occupancy grid and an MLE pose computed from the
\* belief after that event.
C4_EveryHandledEventPublishes ==
    [][HandledStep =>
          /\ Len(probmap_publisher') = Len(probmap_publisher) + 1
          /\ Len(pose_publisher') = Len(pose_publisher) + 1
          /\ probmap_publisher'[Len(probmap_publisher')] =
                 [defined |-> TRUE, data |-> OccupancyData(current_probability_map')]
          /\ pose_publisher'[Len(pose_publisher')] = PoseMsg(current_probability_map')]_vars

\* C5: within a stationary episode, the one beginning with the first handled
\* odometry event included, the observation likelihood enters the belief at
\* most once.
C5_OneFusionPerEpisode == episode_fusions <= 1

\* C6: a detections event changes neither belief, last_odom nor mode, and the
\* observation likelihood used at an odometry event is that of the detections
\* list received last before it.
C6_LatestDetectionsOnly ==
    [][/\ received' # received =>
            UNCHANGED << current_probability_map, last_inertial_position,
                         last_inertial_orientation, state >>
       /\ (pose_events' # pose_events /\ last_odometry'.kind = "first") =>
            current_probability_map' = probmessage_of[received[Len(received)]]
       /\ UpdateStep =>
            \A L_obs \in {probmessage_of[received[Len(received)]]} :
            \A update \in {inertial_update(current_probability_map, last_inertial_position,
                                           last_odometry'.msg.position, last_inertial_orientation[1],
                                           last_odometry'.msg.orientation)} :
                current_probability_map' =
                    ClipNormalize(Candidate(current_probability_map, state, update[1], update[2], L_obs))]_vars

\* C6 witness: two different detections lists were received before the first
\* handled odometry event, so the first list was overwritten unused
C6_Witness ==
    /\ Len(received) = 2
    /\ probmessage_of[received[1]] # probmessage_of[received[2]]
    /\ last_odometry.kind = "first"

\* p(A | pose) of the subset marginal: detectability for the landmarks in A,
\* one minus detectability for the others
SubsetWeight(assignment) ==
    Mul(IF assignment[1] THEN object_dictionary["dog"].detection_probabilities
        ELSE OneMinus(object_dictionary["dog"].detection_probabilities),
        IF assignment[2] THEN object_dictionary["cat"].detection_probabilities
        ELSE OneMinus(object_dictionary["cat"].detection_probabilities))

\* C7: in probmessage the weight multiplied onto p(D | A, pose) is, for every
\* subset A of the two landmarks, the product of detectability over the
\* landmarks in A and of one minus detectability over the others, so that
\* the four weights sum to 1 in every cell.
C7_SubsetWeights ==
    Handled =>
        /\ \A k \in 1 .. Len(comb) : Probs(comb[k]) = SubsetWeight(comb[k])
        /\ Add(Add(Probs(comb[1]), Probs(comb[2])), Add(Probs(comb[3]), Probs(comb[4]))) = Const(1, 1)

\* the yaw-marginalised belief at (iy, ix), numerator
Marginal(map, iy, ix) == YawSum(map.n, iy, ix)

\* C8: get_location_MLE returns as position the first cell (iy, ix) in
\* row-major order maximising the yaw-marginalised belief, and as orientation
\* the yaw index maximising belief[iy, ix, :] there.
C8_MarginalArgmax ==
    ~IsNaN(current_probability_map) =>
        LET mle == get_location_MLE(current_probability_map)
            iy == mle[1][1]
            ix == mle[1][2]
        IN  /\ \A y \in 0 .. num_grid_cells - 1 : \A x \in 0 .. num_grid_cells - 1 :
                  /\ Marginal(current_probability_map, y, x) <= Marginal(current_probability_map, iy, ix)
                  /\ (y < iy \/ (y = iy /\ x < ix)) =>
                        Marginal(current_probability_map, y, x) < Marginal(current_probability_map, iy, ix)
            /\ \A t \in 0 .. num_orientation_cells - 1 :
                  current_probability_map.n[<< iy, ix, t >>] <= current_probability_map.n[<< iy, ix, mle[2] >>]

\* C8 as the code has it: on a belief without NaN, get_location_MLE returns as
\* position the (iy, ix) of the first cell, in row-major (iy, ix, itheta)
\* order, holding the maximum of the three-dimensional belief (not of its yaw
\* marginal), and as orientation the first yaw index maximising
\* belief[iy, ix, :]; the published pose is that cell's world pose.
C8_JointArgmax ==
    ~IsNaN(current_probability_map) =>
        LET mle == get_location_MLE(current_probability_map)
            best == << mle[1][1], mle[1][2], mle[2] >>
            Flat(c) == (c[1] * num_grid_cells + c[2]) * num_orientation_cells + c[3]
        IN  /\ mle[1][1] \in 0 .. num_grid_cells - 1
            /\ mle[1][2] \in 0 .. num_grid_cells - 1
            /\ mle[2] \in 0 .. num_orientation_cells - 1
            /\ \A c \in Cells :
                  /\ current_probability_map.n[c] <= current_probability_map.n[best]
                  /\ Flat(c) < Flat(best) =>
                        current_probability_map.n[c] < current_probability_map.n[best]
            /\ last_odometry.kind = "update" =>
                  pose_publisher[Len(pose_publisher)] =
                      [x |-> grid_cells_origin + best[2] * world_cell_size,
                       y |-> grid_cells_origin + world_grid_length - best[1] * world_cell_size,
                       yaw |-> (best[3] * 2 * pi_literal) \div num_orientation_cells]

\* C8 witness: a published belief whose largest cell is attained more than
\* once and lies outside the first cell maximising the yaw marginal
C8_Witness ==
    /\ last_odometry.kind = "update"
    /\ ~IsNaN(current_probability_map)
    /\ LET mle == get_location_MLE(current_probability_map)
       IN  /\ \E c \in Cells :
                 /\ c # << mle[1][1], mle[1][2], mle[2] >>
                 /\ current_probability_map.n[c] = current_probability_map.n[<< mle[1][1], mle[1][2], mle[2] >>]
           /\ \E y \in 0 .. num_grid_cells - 1 : \E x \in 0 .. num_grid_cells - 1 :
                 Marginal(current_probability_map, y, x) >
                     Marginal(current_probability_map, mle[1][1], mle[1][2])

\* C9: past the first handled odometry message, a message classified as moving
\* sets the belief to the (clipped, normalised) motion prediction alone and the
\* mode to fresh; a message classified as not moving in fresh mode sets the
\* belief to the (clipped, normalised) product of motion prediction and
\* observation likelihood and the mode to aligned; so the mode is aligned
\* exactly when the last such message was classified as not moving.
C9_ModeFollowsMoving ==
    /\ [][UpdateStep =>
          \A L_obs \in {probmessage_of[detections.list]} :
          \A L_mot \in {inertial_update(current_probability_map, last_inertial_position,
                                        last_odometry'.msg.position, last_inertial_orientation[1],
                                        last_odometry'.msg.orientation)[2]} :
          \A moving \in {IsMoving(last_inertial_position, last_odometry'.msg.position,
                                  last_inertial_orientation[1], last_odometry'.msg.orientation)} :
              /\ last_odometry'.moving = moving
              /\ moving => /\ current_probability_map' = DivideBySum(Clip(L_mot))
                           /\ state' = 0
              /\ (~moving /\ state = 0) =>
                           /\ current_probability_map' = DivideBySum(Clip(Mul(L_mot, L_obs)))
                           /\ state' = 1
              /\ (state' = 1) = ~moving]_vars
    /\ []((state = 1) = (last_odometry.kind = "update" /\ ~last_odometry.moving))

\* C9 witness: a moving message followed by a message classified as not
\* moving, which fused the observation and left the mode aligned
C9_Witness ==
    /\ pose_events = 3
    /\ Len(pose_publisher) = 2
    /\ last_odometry.kind = "update"
    /\ ~last_odometry.moving
    /\ episode_fusions = 1
    /\ state = 1

\* C10: after any odometry event, last_odom equals the position and yaw of
\* that event.
C10_EveryEventAdvances ==
    last_odometry.kind # "none" =>
        /\ last_inertial_position = last_odometry.msg.position
        /\ last_inertial_orientation = << last_odometry.msg.orientation >>

\* C10 as the code has it: after an odometry event handled with detections
\* present, moving or not, last_odom equals the position and yaw of that
\* event; an odometry event arriving before any detections leaves last_odom
\* unset.
C10_HandledEventsAdvance ==
    /\ Handled =>
        /\ last_inertial_position = last_odometry.msg.position
        /\ last_inertial_orientation = << last_odometry.msg.orientation >>
    /\ last_odometry.kind = "skipped" =>
        /\ last_inertial_position = None
        /\ last_inertial_orientation = None

\* C10 witness: a message classified as not moving although its position
\* differs from the previous one has advanced last_odom
C10_Witness ==
    /\ last_odometry.kind = "update"
    /\ ~last_odometry.moving
    /\ last_odometry.msg.position = << 1, 0 >>
    /\ last_inertial_position = << 1, 0 >>

=============================================================================
